---- MODULE Spec2Model ----
(***************************************************************************)
(* Model of pebble's event.go: the event payloads and their redaction-     *)
(* aware SafeFormat renderings, the EventListener callback table with      *)
(* EnsureDefaults, and MakeLoggingEventListener.                           *)
(*                                                                         *)
(* A rendering is the sequence of pieces a SafeFormat method hands to the  *)
(* redact.SafePrinter: the literal parts of the format string and one      *)
(* piece per argument.  Every piece is a record                            *)
(*    [t |-> tag, k |-> kind, n |-> number, s |-> text]                    *)
(* with t = "safe" for format literals and redact.Safe(..) arguments and   *)
(* t = "unsafe" for arguments passed without the redact.Safe wrapper.      *)
(* time.Duration is counted in milliseconds.                               *)
(***************************************************************************)
EXTENDS Integers, Sequences, FiniteSets

VARIABLES
    info,       \* the payload handed to SafeFormat
    out,        \* what SafeFormat printed to the SafePrinter
    fpc,        \* "new" before the SafeFormat call, "done" after it, "off" when unused
    divZero,    \* TRUE when the rendering divided by Duration.Seconds() = 0
    l,          \* the EventListener: slot -> callback
    l0,         \* the EventListener as the caller supplied it
    calls,      \* number of EnsureDefaults calls made on l
    made,       \* TRUE when l was built by MakeLoggingEventListener
    phase,      \* "config" while l is being set up, "running" while workers dispatch
    sinks,      \* logger -> sequence of entries written with Infof
    userCalls,  \* invocations received by the caller's own callbacks
    pc,         \* worker -> "idle" | "called" | "ran"
    cur,        \* worker -> the dispatch in progress
    hist,       \* worker -> the dispatches the worker has made, in order
    panicked    \* TRUE once a callback invocation panicked (the process is gone)

vars == <<info, out, fpc, divZero, l, l0, calls, made, phase, sinks, userCalls,
          pc, cur, hist, panicked>>

fmtVars == <<info, out, fpc, divZero>>
regVars == <<l, l0, calls, made, phase, sinks, userCalls, pc, cur, hist, panicked>>

(***************************************************************************)
(* Bounds and input domains.                                               *)
(***************************************************************************)
MaxTables == 2      \* longest Tables sequence of a payload
MaxInputs == 2      \* longest CompactionInfo.Input sequence
MaxMemtables == 2   \* largest FlushInfo.Input
MaxJobID == 2       \* JobIDs are 1..MaxJobID
MaxNormalize == 2   \* EnsureDefaults calls on one EventListener
MaxDispatch == 2    \* dispatches made by the workers, in total

JobIDs == 1..MaxJobID
Levels == {0, 1}
FileNums == {100, 101}
Paths == {"/db/a", "/db/b"}
Reasons == {"flushing", "memtable full"}
Durations == {0, 2000}

\* error values: the nil error and two errors with different texts
NilErr == [isNil |-> TRUE, msg |-> ""]
Errs == {[isNil |-> FALSE, msg |-> "disk full"], [isNil |-> FALSE, msg |-> "io timeout"]}
ErrOrNil == {NilErr} \cup Errs

TableInfos == {[FileNum |-> 100, Size |-> 1000], [FileNum |-> 101, Size |-> 900]}

SeqsUpTo(S, n) == UNION {[1..k -> S] : k \in 0..n}

\* sequences of tables in which no file number occurs twice
TableSeqs ==
    {ts \in SeqsUpTo(TableInfos, MaxTables) :
        \A a, b \in DOMAIN ts : a # b => ts[a].FileNum # ts[b].FileNum}

LevelInfos == [Level : Levels, Tables : TableSeqs]

InputSeqs == SeqsUpTo(LevelInfos, MaxInputs)

IngestTables == [FileNum : FileNums, Size : {900}, Level : Levels]

IngestSeqs == SeqsUpTo(IngestTables, MaxTables)

(***************************************************************************)
(* Event payloads (the struct types of event.go).                          *)
(***************************************************************************)
CompactionInfo ==
    [kind : {"CompactionInfo"}, JobID : {7}, Reason : Reasons, Input : InputSeqs,
     Output : LevelInfos, Duration : Durations, Done : BOOLEAN, Err : ErrOrNil]

FlushInfo ==
    [kind : {"FlushInfo"}, JobID : JobIDs, Reason : Reasons, Input : 0..MaxMemtables,
     Output : TableSeqs, Duration : Durations, Done : BOOLEAN, Err : ErrOrNil]

ManifestCreateInfo ==
    [kind : {"ManifestCreateInfo"}, JobID : JobIDs, Path : Paths, FileNum : FileNums,
     Err : ErrOrNil]

ManifestDeleteInfo ==
    [kind : {"ManifestDeleteInfo"}, JobID : JobIDs, Path : Paths, FileNum : FileNums,
     Err : ErrOrNil]

TableCreateInfo ==
    [kind : {"TableCreateInfo"}, JobID : JobIDs, Reason : Reasons, Path : Paths,
     FileNum : FileNums]

TableDeleteInfo ==
    [kind : {"TableDeleteInfo"}, JobID : JobIDs, Path : Paths, FileNum : FileNums,
     Err : ErrOrNil]

TableIngestInfo ==
    [kind : {"TableIngestInfo"}, JobID : JobIDs, Tables : IngestSeqs,
     GlobalSeqNum : {5}, Err : ErrOrNil]

TableStatsInfo == [kind : {"TableStatsInfo"}, JobID : JobIDs]

WALCreateInfo ==
    [kind : {"WALCreateInfo"}, JobID : JobIDs, Path : Paths, FileNum : FileNums,
     RecycledFileNum : {0} \cup FileNums, Err : ErrOrNil]

WALDeleteInfo ==
    [kind : {"WALDeleteInfo"}, JobID : JobIDs, Path : Paths, FileNum : FileNums,
     Err : ErrOrNil]

WriteStallBeginInfo == [kind : {"WriteStallBeginInfo"}, Reason : Reasons]

Payloads ==
    CompactionInfo \cup FlushInfo \cup ManifestCreateInfo \cup ManifestDeleteInfo
    \cup TableCreateInfo \cup TableDeleteInfo \cup TableIngestInfo \cup TableStatsInfo
    \cup WALCreateInfo \cup WALDeleteInfo \cup WriteStallBeginInfo

(***************************************************************************)
(* Pieces of a rendering.                                                  *)
(***************************************************************************)
Piece(t, k, n, s) == [t |-> t, k |-> k, n |-> n, s |-> s]

\* a literal part of a format string
Lit(s) == Piece("safe", "lit", 0, s)

\* values before they are handed to the printer
IntVal(n) == Piece("arg", "int", n, "")
StrVal(s) == Piece("arg", "str", 0, s)
ErrVal(e) == Piece("arg", "err", 0, e.msg)

\* FileNum.String(): the file number as a short token
FileNumString(f) == Piece("arg", "filenum", f, "")

\* humanize.Uint64(n): the size n with a unit suffix
HumanizeUint64(n) == Piece("arg", "humanize", n, "")

\* humanize.Uint64 of a uint64 whose value the float conversion left to the build
HumanizeImpl(c) == Piece("arg", "humanize", 0, c)

\* %.1f of Duration.Seconds(): tenths of a second, rounded
SecondsTenths(d) == Piece("arg", "secs", (d + 50) \div 100, "")

\* redact.Safe(x) and a bare argument, for one value and for a built string
Safe(p) == [p EXCEPT !.t = "safe"]
Unsafe(p) == [p EXCEPT !.t = "unsafe"]
SafeAll(ps) == [j \in DOMAIN ps |-> Safe(ps[j])]

\* tablesTotalSize with "size = tables[i].Size" for "size += tables[i].Size"
tablesTotalSize_LastOnly(tables) ==
    IF tables = <<>> THEN 0 ELSE tables[Len(tables)].Size

\* the sum is a uint64; the sizes of the domain keep it far below 2^64
RECURSIVE tablesTotalSize(_)
tablesTotalSize(tables) ==
    IF tables = <<>> THEN 0
    ELSE tablesTotalSize(SubSeq(tables, 1, Len(tables) - 1)) + tables[Len(tables)].Size

RECURSIVE formatFileNums(_)
formatFileNums(tables) ==
    IF tables = <<>> THEN <<>>
    ELSE LET k == Len(tables)
             head == formatFileNums(SubSeq(tables, 1, k - 1))
         IN  (IF k > 1 THEN Append(head, StrVal(" ")) ELSE head)
                 \o <<FileNumString(tables[k].FileNum)>>

LevelInfo_safeFormat(i) ==
    <<Lit("L"), Safe(IntVal(i.Level)), Lit(" [")>>
        \o SafeAll(formatFileNums(i.Tables))
        \o <<Lit("] ("), Safe(HumanizeUint64(tablesTotalSize(i.Tables))), Lit(")")>>

(***************************************************************************)
(* float64(outputSize)/i.Duration.Seconds() converted to uint64.  With a   *)
(* zero Duration the quotient is +Inf (outputSize > 0) or NaN              *)
(* (outputSize = 0), and Go leaves the result of converting either to      *)
(* uint64 to the implementation: amd64 yields 1<<63 for both, arm64        *)
(* saturates +Inf to 1<<64 - 1 and maps NaN to 0.                          *)
(***************************************************************************)
ConvOutcomes(outputSize, d) ==
    IF d # 0 THEN {"exact"}
    ELSE IF outputSize = 0 THEN {"0x8000000000000000", "0x0"}
    ELSE {"0x8000000000000000", "0xFFFFFFFFFFFFFFFF"}

\* d is in milliseconds, so d.Seconds() is d/1000; the quotient is truncated
OutputRate(outputSize, d, conv) ==
    IF d = 0 THEN HumanizeImpl(conv)
    ELSE HumanizeUint64((outputSize * 1000) \div d)

\* safeFormatInputs walking i.Input from its last element to its first
RECURSIVE safeFormatInputs_Reversed(_)
safeFormatInputs_Reversed(input) ==
    IF input = <<>> THEN <<>>
    ELSE LET k == Len(input)
             rest == safeFormatInputs_Reversed(SubSeq(input, 1, k - 1))
         IN  LevelInfo_safeFormat(input[k])
                 \o (IF k > 1 THEN <<Lit(" + ")>> \o rest ELSE rest)

RECURSIVE safeFormatInputs(_)
safeFormatInputs(input) ==
    IF input = <<>> THEN <<>>
    ELSE LET k == Len(input)
             head == safeFormatInputs(SubSeq(input, 1, k - 1))
         IN  (IF k > 1 THEN Append(head, Lit(" + ")) ELSE head)
                 \o LevelInfo_safeFormat(input[k])

CompactionInfo_SafeFormat(i, conv) ==
    IF ~i.Err.isNil
    THEN <<Lit("[JOB "), Safe(IntVal(i.JobID)), Lit("] compaction to L"),
           Safe(IntVal(i.Output.Level)), Lit(" error: "), Unsafe(ErrVal(i.Err))>>
    ELSE IF ~i.Done
    THEN <<Lit("[JOB "), Safe(IntVal(i.JobID)), Lit("] compacting ")>>
             \o safeFormatInputs(i.Input)
    ELSE LET outputSize == tablesTotalSize(i.Output.Tables)
         IN  <<Lit("[JOB "), Safe(IntVal(i.JobID)), Lit("] compacted ")>>
                 \o safeFormatInputs(i.Input)
                 \o <<Lit(" -> L"), Safe(IntVal(i.Output.Level)), Lit(" [")>>
                 \o SafeAll(formatFileNums(i.Output.Tables))
                 \o <<Lit("] ("), Safe(HumanizeUint64(outputSize)), Lit("), in "),
                      Safe(SecondsTenths(i.Duration)), Lit("s, output rate "),
                      Safe(OutputRate(outputSize, i.Duration, conv)), Lit("/s")>>

FlushInfo_SafeFormat(i, conv) ==
    IF ~i.Err.isNil
    THEN <<Lit("[JOB "), Safe(IntVal(i.JobID)), Lit("] flush error: "),
           Unsafe(ErrVal(i.Err))>>
    ELSE LET plural == IF i.Input = 1 THEN Safe(StrVal("")) ELSE Safe(StrVal("s"))
         IN  IF ~i.Done
             THEN <<Lit("[JOB "), Safe(IntVal(i.JobID)), Lit("] flushing "),
                    Safe(IntVal(i.Input)), Lit(" memtable"), plural, Lit(" to L0")>>
             ELSE LET outputSize == tablesTotalSize(i.Output)
                  IN  <<Lit("[JOB "), Safe(IntVal(i.JobID)), Lit("] flushed "),
                        Safe(IntVal(i.Input)), Lit(" memtable"), plural, Lit(" to L0 [")>>
                          \o SafeAll(formatFileNums(i.Output))
                          \o <<Lit("] ("), Safe(HumanizeUint64(outputSize)), Lit("), in "),
                               Safe(SecondsTenths(i.Duration)), Lit("s, output rate "),
                               Safe(OutputRate(outputSize, i.Duration, conv)), Lit("/s")>>

\* TRUE when SafeFormat evaluates outputSize / i.Duration.Seconds() with zero seconds
DividesByZero(i) ==
    /\ i.kind \in {"CompactionInfo", "FlushInfo"}
    /\ i.Err.isNil
    /\ i.Done
    /\ i.Duration = 0

ManifestCreateInfo_SafeFormat(i) ==
    IF ~i.Err.isNil
    THEN <<Lit("[JOB "), Safe(IntVal(i.JobID)), Lit("] MANIFEST create error: "),
           Unsafe(ErrVal(i.Err))>>
    ELSE <<Lit("[JOB "), Safe(IntVal(i.JobID)), Lit("] MANIFEST created "),
           Safe(FileNumString(i.FileNum))>>

ManifestDeleteInfo_SafeFormat(i) ==
    IF ~i.Err.isNil
    THEN <<Lit("[JOB "), Safe(IntVal(i.JobID)), Lit("] MANIFEST delete error: "),
           Unsafe(ErrVal(i.Err))>>
    ELSE <<Lit("[JOB "), Safe(IntVal(i.JobID)), Lit("] MANIFEST deleted "),
           Safe(FileNumString(i.FileNum))>>

TableCreateInfo_SafeFormat(i) ==
    <<Lit("[JOB "), Safe(IntVal(i.JobID)), Lit("] "), Safe(StrVal(i.Reason)),
      Lit(": sstable created "), Safe(FileNumString(i.FileNum))>>

\* TableDeleteInfo.SafeFormat without its "if i.Err != nil" branch
TableDeleteInfo_SafeFormat_IgnoreErr(i) ==
    <<Lit("[JOB "), Safe(IntVal(i.JobID)), Lit("] sstable deleted "),
      Safe(FileNumString(i.FileNum))>>

TableDeleteInfo_SafeFormat(i) ==
    IF ~i.Err.isNil
    THEN <<Lit("[JOB "), Safe(IntVal(i.JobID)), Lit("] sstable delete error "),
           Safe(FileNumString(i.FileNum)), Lit(": "), Unsafe(ErrVal(i.Err))>>
    ELSE <<Lit("[JOB "), Safe(IntVal(i.JobID)), Lit("] sstable deleted "),
           Safe(FileNumString(i.FileNum))>>

RECURSIVE ingestTables(_)
ingestTables(tables) ==
    IF tables = <<>> THEN <<>>
    ELSE LET k == Len(tables)
             t == tables[k]
             head == ingestTables(SubSeq(tables, 1, k - 1))
         IN  (IF k > 1 THEN Append(head, Lit(",")) ELSE head)
                 \o <<Lit(" L"), Safe(IntVal(t.Level)), Lit(":"),
                      Safe(FileNumString(t.FileNum)), Lit(" ("),
                      Safe(HumanizeUint64(t.Size)), Lit(")")>>

TableIngestInfo_SafeFormat(i) ==
    IF ~i.Err.isNil
    THEN <<Lit("[JOB "), Safe(IntVal(i.JobID)), Lit("] ingest error: "),
           Unsafe(ErrVal(i.Err))>>
    ELSE <<Lit("[JOB "), Safe(IntVal(i.JobID)), Lit("] ingested")>>
             \o ingestTables(i.Tables)

TableStatsInfo_SafeFormat(i) ==
    <<Lit("[JOB "), Safe(IntVal(i.JobID)), Lit("] all initial table stats loaded")>>

\* WALCreateInfo.SafeFormat with "i.RecycledFileNum != 0" for "i.RecycledFileNum == 0"
WALCreateInfo_SafeFormat_Inverted(i) ==
    IF ~i.Err.isNil
    THEN <<Lit("[JOB "), Safe(IntVal(i.JobID)), Lit("] WAL create error: "),
           Unsafe(ErrVal(i.Err))>>
    ELSE IF i.RecycledFileNum # 0
    THEN <<Lit("[JOB "), Safe(IntVal(i.JobID)), Lit("] WAL created "),
           Safe(FileNumString(i.FileNum))>>
    ELSE <<Lit("[JOB "), Safe(IntVal(i.JobID)), Lit("] WAL created "),
           Safe(FileNumString(i.FileNum)), Lit(" (recycled "),
           Safe(FileNumString(i.RecycledFileNum)), Lit(")")>>

WALCreateInfo_SafeFormat(i) ==
    IF ~i.Err.isNil
    THEN <<Lit("[JOB "), Safe(IntVal(i.JobID)), Lit("] WAL create error: "),
           Unsafe(ErrVal(i.Err))>>
    ELSE IF i.RecycledFileNum = 0
    THEN <<Lit("[JOB "), Safe(IntVal(i.JobID)), Lit("] WAL created "),
           Safe(FileNumString(i.FileNum))>>
    ELSE <<Lit("[JOB "), Safe(IntVal(i.JobID)), Lit("] WAL created "),
           Safe(FileNumString(i.FileNum)), Lit(" (recycled "),
           Safe(FileNumString(i.RecycledFileNum)), Lit(")")>>

\* WALDeleteInfo.SafeFormat with the error wrapped in redact.Safe
WALDeleteInfo_SafeFormat_SafeErr(i) ==
    IF ~i.Err.isNil
    THEN <<Lit("[JOB "), Safe(IntVal(i.JobID)), Lit("] WAL delete error: "),
           Safe(ErrVal(i.Err))>>
    ELSE <<Lit("[JOB "), Safe(IntVal(i.JobID)), Lit("] WAL deleted "),
           Safe(FileNumString(i.FileNum))>>

WALDeleteInfo_SafeFormat(i) ==
    IF ~i.Err.isNil
    THEN <<Lit("[JOB "), Safe(IntVal(i.JobID)), Lit("] WAL delete error: "),
           Unsafe(ErrVal(i.Err))>>
    ELSE <<Lit("[JOB "), Safe(IntVal(i.JobID)), Lit("] WAL deleted "),
           Safe(FileNumString(i.FileNum))>>

WriteStallBeginInfo_SafeFormat(i) ==
    <<Lit("write stall beginning: "), Safe(StrVal(i.Reason))>>

\* redactSprint(i): i.SafeFormat run against a fresh printer
redactSprint(i, conv) ==
    CASE i.kind = "CompactionInfo" -> CompactionInfo_SafeFormat(i, conv)
      [] i.kind = "FlushInfo" -> FlushInfo_SafeFormat(i, conv)
      [] i.kind = "ManifestCreateInfo" -> ManifestCreateInfo_SafeFormat(i)
      [] i.kind = "ManifestDeleteInfo" -> ManifestDeleteInfo_SafeFormat(i)
      [] i.kind = "TableCreateInfo" -> TableCreateInfo_SafeFormat(i)
      [] i.kind = "TableDeleteInfo" -> TableDeleteInfo_SafeFormat(i)
      [] i.kind = "TableIngestInfo" -> TableIngestInfo_SafeFormat(i)
      [] i.kind = "TableStatsInfo" -> TableStatsInfo_SafeFormat(i)
      [] i.kind = "WALCreateInfo" -> WALCreateInfo_SafeFormat(i)
      [] i.kind = "WALDeleteInfo" -> WALDeleteInfo_SafeFormat(i)
      [] i.kind = "WriteStallBeginInfo" -> WriteStallBeginInfo_SafeFormat(i)

\* the conversions the rendering of i can meet
ConvOutcomesOf(i) ==
    IF i.kind = "CompactionInfo" THEN ConvOutcomes(tablesTotalSize(i.Output.Tables), i.Duration)
    ELSE IF i.kind = "FlushInfo" THEN ConvOutcomes(tablesTotalSize(i.Output), i.Duration)
    ELSE {"exact"}

(***************************************************************************)
(* The rendering as a state machine: a payload is constructed, and its     *)
(* SafeFormat method is run once.                                          *)
(***************************************************************************)
Formatted(kind, rendering) ==
    /\ fpc = "new"
    /\ info.kind = kind
    /\ out' = rendering
    /\ divZero' = DividesByZero(info)
    /\ fpc' = "done"
    /\ UNCHANGED <<info, regVars>>

FormatCompaction ==
    \E conv \in ConvOutcomesOf(info) :
        Formatted("CompactionInfo", CompactionInfo_SafeFormat(info, conv))

FormatFlush ==
    \E conv \in ConvOutcomesOf(info) :
        Formatted("FlushInfo", FlushInfo_SafeFormat(info, conv))

FormatManifestCreate == Formatted("ManifestCreateInfo", ManifestCreateInfo_SafeFormat(info))

FormatManifestDelete == Formatted("ManifestDeleteInfo", ManifestDeleteInfo_SafeFormat(info))

FormatTableCreate == Formatted("TableCreateInfo", TableCreateInfo_SafeFormat(info))

FormatTableDelete == Formatted("TableDeleteInfo", TableDeleteInfo_SafeFormat(info))

FormatTableIngest == Formatted("TableIngestInfo", TableIngestInfo_SafeFormat(info))

FormatTableStats == Formatted("TableStatsInfo", TableStatsInfo_SafeFormat(info))

FormatWALCreate == Formatted("WALCreateInfo", WALCreateInfo_SafeFormat(info))

FormatWALDelete == Formatted("WALDeleteInfo", WALDeleteInfo_SafeFormat(info))

FormatWriteStallBegin == Formatted("WriteStallBeginInfo", WriteStallBeginInfo_SafeFormat(info))

(***************************************************************************)
(* The EventListener.                                                      *)
(***************************************************************************)
Slots ==
    {"BackgroundError", "CompactionBegin", "CompactionEnd", "FlushBegin", "FlushEnd",
     "ManifestCreated", "ManifestDeleted", "TableCreated", "TableDeleted",
     "TableIngested", "TableStatsLoaded", "WALCreated", "WALDeleted",
     "WriteStallBegin", "WriteStallEnd"}

\* Logger values: the nil interface, the process-wide DefaultLogger, a caller's logger
NilLogger == "nil"
DefaultLogger == "DefaultLogger"
Sinks == {DefaultLogger, "custom"}
Loggers == {NilLogger} \cup Sinks

Workers == {"w1", "w2"}

\* function values: a closure is its function literal and the logger it captured
Func(kind, slot, logger) == [kind |-> kind, slot |-> slot, logger |-> logger]
NilFunc == Func("nil", "none", "none")
UserFunc(s) == Func("user", s, "none")

\* EnsureDefaults without its nil checks: every slot is assigned its default
EnsureDefaults_Overwrite(reg, logger) ==
    [s \in Slots |->
        IF s = "BackgroundError" THEN Func("default_bgerr", s, logger)
        ELSE Func("noop", s, "none")]

EnsureDefaults(reg, logger) ==
    [s \in Slots |->
        IF reg[s] # NilFunc THEN reg[s]
        ELSE IF s = "BackgroundError" THEN Func("default_bgerr", s, logger)
        ELSE Func("noop", s, "none")]

\* MakeLoggingEventListener without "if logger == nil { logger = DefaultLogger }"
MakeLoggingEventListener_KeepNil(logger) ==
    [s \in Slots |->
        IF s = "BackgroundError" THEN Func("log_bgerr", s, logger)
        ELSE IF s = "WriteStallEnd" THEN Func("log_stallend", s, logger)
        ELSE Func("log_info", s, logger)]

MakeLoggingEventListener(logger) ==
    LET lg == IF logger = NilLogger THEN DefaultLogger ELSE logger
    IN  [s \in Slots |->
            IF s = "BackgroundError" THEN Func("log_bgerr", s, lg)
            ELSE IF s = "WriteStallEnd" THEN Func("log_stallend", s, lg)
            ELSE Func("log_info", s, lg)]

\* logger.Infof(format, args...): one entry at info severity
Infof(snk, logger, msg, w, k) ==
    [snk EXCEPT ![logger] = Append(@, [sev |-> "info", msg |-> msg, w |-> w, k |-> k])]

\* the message a callback hands to Infof
Message(f, arg) ==
    CASE f.kind \in {"default_bgerr", "log_bgerr"} ->
             <<Lit("background error: "), Unsafe(ErrVal(arg))>>
      [] f.kind = "log_info" -> redactSprint(arg, "exact")
      [] f.kind = "log_stallend" -> <<Lit("write stall ending")>>

Logs(f) == f.kind \in {"default_bgerr", "log_bgerr", "log_info", "log_stallend"}

\* a logging callback whose body calls logger.Infof twice
CallbackBody_Twice(f, arg, snk, w, k) ==
    IF Logs(f)
    THEN Infof(Infof(snk, f.logger, Message(f, arg), w, k), f.logger, Message(f, arg), w, k)
    ELSE snk

\* the sinks after the body of f has run for dispatch k of worker w:
\* the logging closures call logger.Infof once, the others write nothing
CallbackBody(f, arg, snk, w, k) ==
    IF Logs(f) THEN Infof(snk, f.logger, Message(f, arg), w, k) ELSE snk

\* calling a nil func, or a method of a nil Logger, panics
Panics(f) == f = NilFunc \/ (Logs(f) /\ f.logger = NilLogger)

(***************************************************************************)
(* Configuration: the caller fills in an EventListener, or obtains one     *)
(* from MakeLoggingEventListener, and EnsureDefaults normalizes it.        *)
(***************************************************************************)
CallerListener(U) == [s \in Slots |-> IF s \in U THEN UserFunc(s) ELSE NilFunc]

CallEnsureDefaults(logger) ==
    /\ phase = "config"
    /\ calls < MaxNormalize
    /\ l' = EnsureDefaults(l, logger)
    /\ calls' = calls + 1
    /\ UNCHANGED <<l0, made, phase, sinks, userCalls, pc, cur, hist, panicked, fmtVars>>

CallMakeLoggingEventListener(logger) ==
    /\ phase = "config"
    /\ made = "no"
    /\ calls = 0
    /\ l' = MakeLoggingEventListener(logger)
    /\ l0' = l'
    /\ made' = logger
    /\ UNCHANGED <<calls, phase, sinks, userCalls, pc, cur, hist, panicked, fmtVars>>

(***************************************************************************)
(* Dispatch: a worker calls a slot of the listener with a payload.  The    *)
(* call, the callback's body and the return are separate steps, so the     *)
(* workers' dispatches interleave.                                         *)
(***************************************************************************)
\* the payloads the workers dispatch
ArgsFor(s) ==
    CASE s = "BackgroundError" -> Errs
      [] s = "CompactionBegin" ->
             {[kind |-> "CompactionInfo", JobID |-> 7, Reason |-> "flushing",
               Input |-> <<[Level |-> 0, Tables |-> <<[FileNum |-> 100, Size |-> 1000]>>]>>,
               Output |-> [Level |-> 1, Tables |-> <<>>], Duration |-> 0,
               Done |-> FALSE, Err |-> NilErr]}
      [] s = "CompactionEnd" ->
             {[kind |-> "CompactionInfo", JobID |-> 7, Reason |-> "flushing",
               Input |-> <<[Level |-> 0, Tables |-> <<[FileNum |-> 100, Size |-> 1000]>>]>>,
               Output |-> [Level |-> 1, Tables |-> <<[FileNum |-> 101, Size |-> 900]>>],
               Duration |-> 2000, Done |-> TRUE, Err |-> NilErr]}
      [] s = "FlushBegin" ->
             {[kind |-> "FlushInfo", JobID |-> 1, Reason |-> "flushing", Input |-> 1,
               Output |-> <<>>, Duration |-> 0, Done |-> FALSE, Err |-> NilErr]}
      [] s = "FlushEnd" ->
             {[kind |-> "FlushInfo", JobID |-> 1, Reason |-> "flushing", Input |-> 1,
               Output |-> <<[FileNum |-> 100, Size |-> 1000]>>, Duration |-> 2000,
               Done |-> TRUE, Err |-> [isNil |-> FALSE, msg |-> "disk full"]]}
      [] s = "ManifestCreated" ->
             {[kind |-> "ManifestCreateInfo", JobID |-> 1, Path |-> "/db/a",
               FileNum |-> 100, Err |-> NilErr]}
      [] s = "ManifestDeleted" ->
             {[kind |-> "ManifestDeleteInfo", JobID |-> 1, Path |-> "/db/a",
               FileNum |-> 100, Err |-> NilErr]}
      [] s = "TableCreated" ->
             {[kind |-> "TableCreateInfo", JobID |-> 1, Reason |-> "flushing",
               Path |-> "/db/a", FileNum |-> 100]}
      [] s = "TableDeleted" ->
             {[kind |-> "TableDeleteInfo", JobID |-> 1, Path |-> "/db/a",
               FileNum |-> 100, Err |-> NilErr]}
      [] s = "TableIngested" ->
             {[kind |-> "TableIngestInfo", JobID |-> 1,
               Tables |-> <<[FileNum |-> 100, Size |-> 900, Level |-> 0],
                            [FileNum |-> 101, Size |-> 900, Level |-> 1]>>,
               GlobalSeqNum |-> 5, Err |-> NilErr]}
      [] s = "TableStatsLoaded" -> {[kind |-> "TableStatsInfo", JobID |-> 1]}
      [] s = "WALCreated" ->
             {[kind |-> "WALCreateInfo", JobID |-> 1, Path |-> "/db/a", FileNum |-> 101,
               RecycledFileNum |-> 100, Err |-> NilErr]}
      [] s = "WALDeleted" ->
             {[kind |-> "WALDeleteInfo", JobID |-> 1, Path |-> "/db/a", FileNum |-> 100,
               Err |-> NilErr]}
      [] s = "WriteStallBegin" -> WriteStallBeginInfo
      [] s = "WriteStallEnd" -> {[kind |-> "none"]}

RECURSIVE TotalLen(_, _)
TotalLen(h, W) ==
    IF W = {} THEN 0
    ELSE LET w == CHOOSE x \in W : TRUE
         IN  Len(h[w]) + TotalLen(h, W \ {w})

\* worker w calls l.<slot>(arg)
Dispatch(w, s, arg) ==
    /\ phase = "running"
    /\ ~panicked
    /\ pc[w] = "idle"
    /\ TotalLen(hist, Workers) < MaxDispatch
    /\ pc' = [pc EXCEPT ![w] = "called"]
    /\ cur' = [cur EXCEPT ![w] = [slot |-> s, arg |-> arg]]
    /\ hist' = [hist EXCEPT ![w] = Append(@, [slot |-> s, arg |-> arg])]
    /\ UNCHANGED <<l, l0, calls, made, phase, sinks, userCalls, panicked, fmtVars>>

\* the body of the function held by the slot runs
RunCallback(w) ==
    /\ phase = "running"
    /\ ~panicked
    /\ pc[w] = "called"
    /\ LET f == l[cur[w].slot]
           k == Len(hist[w])
       IN  IF Panics(f)
           THEN /\ panicked' = TRUE
                /\ pc' = [pc EXCEPT ![w] = "panicked"]
                /\ UNCHANGED <<sinks, userCalls>>
           ELSE /\ sinks' = CallbackBody(f, cur[w].arg, sinks, w, k)
                /\ userCalls' = IF f.kind = "user"
                                THEN Append(userCalls, [slot |-> f.slot, w |-> w, k |-> k])
                                ELSE userCalls
                /\ pc' = [pc EXCEPT ![w] = "ran"]
                /\ UNCHANGED panicked
    /\ UNCHANGED <<l, l0, calls, made, phase, cur, hist, fmtVars>>

\* the callback returns and the worker goes on
Return(w) ==
    /\ phase = "running"
    /\ ~panicked
    /\ pc[w] = "ran"
    /\ pc' = [pc EXCEPT ![w] = "idle"]
    /\ UNCHANGED <<l, l0, calls, made, phase, sinks, userCalls, cur, hist, panicked, fmtVars>>

(***************************************************************************)
(* Specifications.                                                         *)
(***************************************************************************)
NoInfo == [kind |-> "none"]

FmtOff ==
    /\ info = NoInfo
    /\ out = <<>>
    /\ fpc = "off"
    /\ divZero = FALSE

WorkersIdle ==
    /\ sinks = [g \in Sinks |-> <<>>]
    /\ userCalls = <<>>
    /\ pc = [w \in Workers |-> "idle"]
    /\ cur = [w \in Workers |-> [slot |-> "none", arg |-> NoInfo]]
    /\ hist = [w \in Workers |-> <<>>]
    /\ panicked = FALSE

\* rendering: any payload, not yet formatted
InitFmt ==
    /\ info \in Payloads
    /\ out = <<>>
    /\ fpc = "new"
    /\ divZero = FALSE
    /\ l = CallerListener({})
    /\ l0 = l
    /\ calls = 0
    /\ made = "no"
    /\ phase = "off"
    /\ WorkersIdle

NextFmt ==
    \/ FormatCompaction
    \/ FormatFlush
    \/ FormatManifestCreate
    \/ FormatManifestDelete
    \/ FormatTableCreate
    \/ FormatTableDelete
    \/ FormatTableIngest
    \/ FormatTableStats
    \/ FormatWALCreate
    \/ FormatWALDelete
    \/ FormatWriteStallBegin

SpecFmt == InitFmt /\ [][NextFmt]_vars

\* normalization: an EventListener with any subset of its slots set by the caller
InitNorm ==
    /\ FmtOff
    /\ \E U \in SUBSET Slots : l = CallerListener(U)
    /\ l0 = l
    /\ calls = 0
    /\ made = "no"
    /\ phase = "config"
    /\ WorkersIdle

NextNorm ==
    \/ \E logger \in Loggers : CallEnsureDefaults(logger)
    \/ \E logger \in Loggers : CallMakeLoggingEventListener(logger)

SpecNorm == InitNorm /\ [][NextNorm]_vars

\* the caller-set slot sets the dispatching engine is opened with
UserSets == {{}, {"BackgroundError", "WriteStallBegin"}}

\* dispatch: the engine runs with a listener that MakeLoggingEventListener built
\* or that EnsureDefaults normalized
InitDispatch ==
    /\ FmtOff
    /\ \/ \E logger \in Loggers :
            /\ l = MakeLoggingEventListener(logger)
            /\ l0 = l
            /\ made = logger
            /\ calls = 0
       \/ \E U \in UserSets, logger \in Loggers :
            /\ l0 = CallerListener(U)
            /\ l = EnsureDefaults(l0, logger)
            /\ made = "no"
            /\ calls = 1
    /\ phase = "running"
    /\ WorkersIdle

NextDispatch ==
    \/ \E w \in Workers, s \in Slots : \E arg \in ArgsFor(s) : Dispatch(w, s, arg)
    \/ \E w \in Workers : RunCallback(w)
    \/ \E w \in Workers : Return(w)

SpecDispatch == InitDispatch /\ [][NextDispatch]_vars

(***************************************************************************)
(* Helpers for stating the properties.                                     *)
(***************************************************************************)
Has(r, p) == \E j \in DOMAIN r : r[j] = p

HasLit(r, s) == Has(r, Lit(s))

HasKind(r, k) == \E j \in DOMAIN r : r[j].k = k

\* the numbers of the pieces of kind k, in order of appearance
NumsOf(r, k) ==
    LET IsK(p) == p.k = k
        sel == SelectSeq(r, IsK)
    IN  [j \in DOMAIN sel |-> sel[j].n]

CountOf(r, p) == Cardinality({j \in DOMAIN r : r[j] = p})

FirstIndex(r, p) == CHOOSE j \in DOMAIN r : r[j] = p /\ \A h \in 1..(j - 1) : r[h] # p

RECURSIVE SumSizes(_)
SumSizes(ts) == IF ts = <<>> THEN 0 ELSE Head(ts).Size + SumSizes(Tail(ts))

RECURSIVE FlatFileNums(_)
FlatFileNums(ls) ==
    IF ls = <<>> THEN <<>>
    ELSE [j \in DOMAIN Head(ls).Tables |-> Head(ls).Tables[j].FileNum]
             \o FlatFileNums(Tail(ls))

RECURSIVE SeparatorsIn(_)
SeparatorsIn(ls) ==
    IF ls = <<>> THEN 0
    ELSE (IF Len(Head(ls).Tables) > 1 THEN Len(Head(ls).Tables) - 1 ELSE 0)
             + SeparatorsIn(Tail(ls))

\* what a redaction pass leaves of a rendering
Redact(r) ==
    [j \in DOMAIN r |-> IF r[j].t = "unsafe" THEN Piece("unsafe", "redacted", 0, "x") ELSE r[j]]

ErrorIndicators ==
    {" error: ", "] flush error: ", "] MANIFEST create error: ",
     "] MANIFEST delete error: ", "] sstable delete error ", "] ingest error: ",
     "] WAL create error: ", "] WAL delete error: "}

ErrorShape(r) == \E j \in DOMAIN r : r[j].k = "lit" /\ r[j].s \in ErrorIndicators

InProgressShape(r) == HasLit(r, "] compacting ") \/ HasLit(r, "] flushing ")

CompletedShape(r) == HasLit(r, "] compacted ") \/ HasLit(r, "] flushed ")

\* no output file list, output size, elapsed time or rate
NoOutputStatistics(r) ==
    /\ ~HasKind(r, "secs")
    /\ ~HasLit(r, " -> L")
    /\ ~HasLit(r, " to L0 [")
    /\ ~HasLit(r, "), in ")
    /\ ~HasLit(r, "s, output rate ")
    /\ ~HasLit(r, "/s")

ErrKinds ==
    {"CompactionInfo", "FlushInfo", "ManifestCreateInfo", "ManifestDeleteInfo",
     "TableDeleteInfo", "TableIngestInfo", "WALCreateInfo", "WALDeleteInfo"}

TwoPhase == {"CompactionInfo", "FlushInfo"}

(***************************************************************************)
(* C3: error dominance.  A payload whose Err is set renders as the error   *)
(* shape: an error indicator and the Err text, and no size, elapsed time   *)
(* or rate, whatever Done, Duration, Output and the other fields hold.     *)
(***************************************************************************)
C3_ErrorDominance ==
    (fpc = "done" /\ info.kind \in ErrKinds /\ ~info.Err.isNil) =>
        /\ ErrorShape(out)
        /\ Has(out, Unsafe(ErrVal(info.Err)))
        /\ NoOutputStatistics(out)
        /\ ~HasKind(out, "humanize")
        /\ ~InProgressShape(out)
        /\ ~CompletedShape(out)

C3_Witness ==
    /\ fpc = "done"
    /\ info.kind = "CompactionInfo"
    /\ ~info.Err.isNil
    /\ info.Done
    /\ info.Duration > 0
    /\ info.Output.Tables # <<>>
    /\ ErrorShape(out)

(***************************************************************************)
(* C4: a CompactionInfo or FlushInfo renders as exactly one of three       *)
(* shapes chosen by (Err, Done).  Err set: the error shape.  Err nil and   *)
(* Done false: the in-progress shape, which lists the inputs and has no    *)
(* output files, output size, elapsed time or rate.  Err nil and Done      *)
(* true: the completed shape, with the output files, the sum of the output *)
(* table sizes, the elapsed time and an output rate (size over seconds     *)
(* when the Duration is not zero).                                         *)
(***************************************************************************)
OutputTables(i) == IF i.kind = "CompactionInfo" THEN i.Output.Tables ELSE i.Output

OutputMarker(i) == IF i.kind = "CompactionInfo" THEN Lit(" -> L") ELSE Lit(" to L0 [")

\* the part of a completed rendering that follows the inputs
OutputPart(i, r) == SubSeq(r, FirstIndex(r, OutputMarker(i)), Len(r))

InputPart(i, r) ==
    IF Has(r, OutputMarker(i)) THEN SubSeq(r, 1, FirstIndex(r, OutputMarker(i)) - 1) ELSE r

ListsInputs(i, r) ==
    IF i.kind = "CompactionInfo"
    THEN NumsOf(InputPart(i, r), "filenum") = FlatFileNums(i.Input)
    ELSE /\ Has(r, Safe(IntVal(i.Input)))
         /\ HasLit(r, " memtable")

C4_ThreeShapes ==
    (fpc = "done" /\ info.kind \in TwoPhase) =>
        LET e == ErrorShape(out)
            p == InProgressShape(out)
            c == CompletedShape(out)
        IN  /\ (e /\ ~p /\ ~c) \/ (~e /\ p /\ ~c) \/ (~e /\ ~p /\ c)
            /\ e <=> ~info.Err.isNil
            /\ p <=> (info.Err.isNil /\ ~info.Done)
            /\ c <=> (info.Err.isNil /\ info.Done)
            /\ p => /\ ListsInputs(info, out)
                    /\ NoOutputStatistics(out)
                    /\ info.kind = "FlushInfo" => ~HasKind(out, "humanize")
            /\ c => LET o == OutputPart(info, out)
                        size == SumSizes(OutputTables(info))
                        last == Len(o)
                    IN  /\ ListsInputs(info, out)
                        /\ NumsOf(o, "filenum")
                             = [j \in DOMAIN OutputTables(info) |-> OutputTables(info)[j].FileNum]
                        /\ Has(o, Safe(HumanizeUint64(size)))
                        /\ Has(o, Safe(SecondsTenths(info.Duration)))
                        /\ o[last] = Lit("/s")
                        /\ o[last - 2] = Lit("s, output rate ")
                        /\ o[last - 1].k = "humanize"
                        /\ o[last - 1].t = "safe"
                        /\ info.Duration > 0 =>
                             o[last - 1] = Safe(HumanizeUint64((size * 1000) \div info.Duration))

C4_Witness ==
    /\ fpc = "done"
    /\ info.kind = "FlushInfo"
    /\ info.Err.isNil
    /\ info.Done
    /\ Len(info.Output) = 2
    /\ info.Duration = 2000
    /\ Has(out, Safe(HumanizeUint64(1900)))
    /\ Has(out, Safe(HumanizeUint64(950)))

(***************************************************************************)
(* C8: a completed CompactionInfo or FlushInfo with a zero Duration is     *)
(* rendered without dividing the output size by zero seconds, and the      *)
(* rendered rate is a defined value.                                       *)
(***************************************************************************)
C8_ZeroDurationGuarded ==
    (fpc = "done" /\ info.kind \in TwoPhase /\ info.Err.isNil /\ info.Done
        /\ info.Duration = 0) =>
        /\ ~divZero
        /\ out[Len(out) - 1].s = ""

(***************************************************************************)
(* C10: the rendering of a WALCreateInfo names the recycled file if and    *)
(* only if RecycledFileNum is not zero.                                    *)
(***************************************************************************)
MentionsRecycling(r) ==
    \E j \in DOMAIN r : r[j].k = "lit" /\ r[j].s = " (recycled "

NamesRecycled(i, r) ==
    \E j \in 1..(Len(r) - 1) :
        r[j] = Lit(" (recycled ") /\ r[j + 1] = Safe(FileNumString(i.RecycledFileNum))

C10_RecycledIffNonZero ==
    (fpc = "done" /\ info.kind = "WALCreateInfo") =>
        /\ info.RecycledFileNum = 0 => ~MentionsRecycling(out)
        /\ info.RecycledFileNum # 0 => NamesRecycled(info, out)

\* C10 as it holds: for a WALCreateInfo whose Err is nil the rendering names the
\* recycled file if and only if RecycledFileNum is not zero; with Err set the
\* rendering is the error line and never mentions recycling
C10_RecycledIffNonZeroNoErr ==
    (fpc = "done" /\ info.kind = "WALCreateInfo") =>
        /\ info.Err.isNil =>
            /\ info.RecycledFileNum = 0 => ~MentionsRecycling(out)
            /\ info.RecycledFileNum # 0 =>
                /\ NamesRecycled(info, out)
                /\ Has(out, Safe(FileNumString(info.FileNum)))
        /\ ~info.Err.isNil => (~MentionsRecycling(out) /\ ErrorShape(out))

C10_Witness ==
    /\ fpc = "done"
    /\ info.kind = "WALCreateInfo"
    /\ info.Err.isNil
    /\ info.RecycledFileNum = 100
    /\ info.FileNum = 101
    /\ NamesRecycled(info, out)

(***************************************************************************)
(* C5: the free-form Path and Reason strings and the Err text are tagged   *)
(* as potentially sensitive and never as safe, so two payloads of one type *)
(* that differ only in Path, Reason or Err text render to the same output  *)
(* once the sensitive values are elided.                                   *)
(***************************************************************************)
WithReason(i, r) == IF "Reason" \in DOMAIN i THEN [i EXCEPT !.Reason = r] ELSE i

WithPath(i, p) == IF "Path" \in DOMAIN i THEN [i EXCEPT !.Path = p] ELSE i

WithErrText(i, e) ==
    IF "Err" \in DOMAIN i /\ ~i.Err.isNil THEN [i EXCEPT !.Err = e] ELSE i

\* the payloads equal to i but for Path and Err text
PathErrSiblings(i) == {WithErrText(WithPath(i, p), e) : p \in Paths, e \in Errs}

\* the payloads equal to i but for Path, Reason and Err text
Siblings(i) == {WithReason(q, r) : q \in PathErrSiblings(i), r \in Reasons}

RedactedRenderings(i) == {Redact(redactSprint(i, c)) : c \in ConvOutcomesOf(i)}

CarriesFreeText(i, p) ==
    \/ p.k = "err"
    \/ p.k = "str" /\ "Reason" \in DOMAIN i /\ p.s = i.Reason
    \/ p.k = "str" /\ "Path" \in DOMAIN i /\ p.s = i.Path

C5_FreeTextSensitive ==
    fpc = "done" =>
        /\ \A j \in DOMAIN out : CarriesFreeText(info, out[j]) => out[j].t = "unsafe"
        /\ \A q \in Siblings(info) : Redact(out) \in RedactedRenderings(q)

RendersReason == {"TableCreateInfo", "WriteStallBeginInfo"}

\* C5 as it holds: the Err text is tagged as potentially sensitive and never as
\* safe, and Path is not rendered at all, so two payloads of one type that differ
\* only in Path or Err text render to the same output once the sensitive values
\* are elided.  Reason is not rendered for CompactionInfo and FlushInfo; for
\* TableCreateInfo and WriteStallBeginInfo it is rendered tagged safe, so payloads
\* that differ in Reason stay distinguishable after redaction.
C5_ErrTextSensitive ==
    fpc = "done" =>
        /\ \A j \in DOMAIN out :
            /\ out[j].k = "err" => out[j].t = "unsafe"
            /\ out[j].t = "unsafe" => out[j].k = "err"
            /\ "Path" \in DOMAIN info => out[j].s # info.Path
        /\ ("Err" \in DOMAIN info /\ ~info.Err.isNil) => Has(out, Unsafe(ErrVal(info.Err)))
        /\ \A q \in PathErrSiblings(info) : Redact(out) \in RedactedRenderings(q)
        /\ info.kind \in RendersReason => Has(out, Safe(StrVal(info.Reason)))
        /\ \A q \in Siblings(info) :
            (Redact(out) \in RedactedRenderings(q))
                <=> (info.kind \notin RendersReason \/ q.Reason = info.Reason)

C5_Witness ==
    /\ fpc = "done"
    /\ info.kind = "TableDeleteInfo"
    /\ info.Err.msg = "disk full"
    /\ info.Path = "/db/b"
    /\ Has(out, Unsafe(ErrVal(info.Err)))
    /\ Redact(out) # out

(***************************************************************************)
(* C9: sequences render in the order supplied.  A TableIngestInfo without  *)
(* Err lists every table as level, file number and size, comma-separated,  *)
(* in the order of Tables; a CompactionInfo renders its Input level groups *)
(* in sequence order joined by " + ", the file tokens of a group separated *)
(* by spaces in table order.  Nothing is dropped, duplicated or reordered. *)
(***************************************************************************)
\* every occurrence of the separator p stands between a piece a and a piece b
Between(r, p, a(_), b(_)) ==
    \A j \in DOMAIN r :
        r[j] = p => (j > 1 /\ j < Len(r) /\ a(r[j - 1]) /\ b(r[j + 1]))

IsCloseParen(p) == p = Lit(")")
IsLevelOpen(p) == p = Lit("L")
IsIngestOpen(p) == p = Lit(" L")
IsFileNum(p) == p.k = "filenum"

C9_OrderPreserved ==
    /\ (fpc = "done" /\ info.kind = "TableIngestInfo" /\ info.Err.isNil) =>
        LET ts == info.Tables
        IN  /\ NumsOf(out, "filenum") = [j \in DOMAIN ts |-> ts[j].FileNum]
            /\ NumsOf(out, "int") = <<info.JobID>> \o [j \in DOMAIN ts |-> ts[j].Level]
            /\ NumsOf(out, "humanize") = [j \in DOMAIN ts |-> ts[j].Size]
            /\ CountOf(out, Lit(",")) = (IF ts = <<>> THEN 0 ELSE Len(ts) - 1)
            /\ Between(out, Lit(","), IsCloseParen, IsIngestOpen)
    /\ (fpc = "done" /\ info.kind = "CompactionInfo" /\ info.Err.isNil) =>
        LET ls == info.Input
            r == InputPart(info, out)
        IN  /\ NumsOf(r, "filenum") = FlatFileNums(ls)
            /\ NumsOf(r, "int") = <<info.JobID>> \o [j \in DOMAIN ls |-> ls[j].Level]
            /\ NumsOf(r, "humanize") = [j \in DOMAIN ls |-> SumSizes(ls[j].Tables)]
            /\ CountOf(r, Lit(" + ")) = (IF ls = <<>> THEN 0 ELSE Len(ls) - 1)
            /\ Between(r, Lit(" + "), IsCloseParen, IsLevelOpen)
            /\ CountOf(r, Safe(StrVal(" "))) = SeparatorsIn(ls)
            /\ Between(r, Safe(StrVal(" ")), IsFileNum, IsFileNum)

C9_Witness ==
    /\ fpc = "done"
    /\ info.kind = "CompactionInfo"
    /\ info.Err.isNil
    /\ info.Done
    /\ Len(info.Input) = 2
    /\ info.Input[1].Level = 1
    /\ info.Input[2].Level = 0
    /\ NumsOf(InputPart(info, out), "filenum") = <<101, 100, 100>>
    /\ CountOf(out, Lit(" + ")) = 1

(***************************************************************************)
(* Helpers for the dispatch properties.                                    *)
(***************************************************************************)
\* the dispatches of w whose callback body has run to its end
Ran(w) ==
    {k \in 1..Len(hist[w]) : k < Len(hist[w]) \/ pc[w] \in {"ran", "idle"}}

\* the sink entries written on behalf of dispatch k of worker w
EntryRefs(w, k) ==
    {x \in UNION {{<<g, j>> : j \in DOMAIN sinks[g]} : g \in Sinks} :
        sinks[x[1]][x[2]].w = w /\ sinks[x[1]][x[2]].k = k}

UserRefs(w, k) == {j \in DOMAIN userCalls : userCalls[j].w = w /\ userCalls[j].k = k}

\* the line the logging listener is to write for a dispatch
ExpectedLine(d) ==
    IF d.slot = "WriteStallEnd" THEN <<Lit("write stall ending")>>
    ELSE IF d.slot = "BackgroundError" THEN <<Lit("background error: "), Unsafe(ErrVal(d.arg))>>
    ELSE redactSprint(d.arg, "exact")

(***************************************************************************)
(* C1: after EnsureDefaults(logger) every slot is non-nil, and a slot that *)
(* was nil before the call can be invoked with any payload without a panic *)
(* and without a sink entry, except BackgroundError, whose default writes  *)
(* exactly one entry per invocation to the logger.                         *)
(***************************************************************************)
C1_DefaultsSafe ==
    (made = "no" /\ calls >= 1) =>
        /\ \A s \in Slots : l[s] # NilFunc
        /\ \A w \in Workers : \A k \in 1..Len(hist[w]) :
            LET s == hist[w][k].slot
                invoked == k < Len(hist[w]) \/ pc[w] # "called"
            IN  (l0[s] = NilFunc /\ invoked) =>
                    /\ pc[w] # "panicked"
                    /\ s # "BackgroundError" => EntryRefs(w, k) = {}
                    /\ s = "BackgroundError" =>
                        \E j \in DOMAIN sinks[l[s].logger] :
                            /\ EntryRefs(w, k) = {<<l[s].logger, j>>}
                            /\ sinks[l[s].logger][j].msg = ExpectedLine(hist[w][k])

(***************************************************************************)
(* C2: EnsureDefaults keeps every slot the caller set and is idempotent:   *)
(* a slot that is non-nil before a call holds the same function after it,  *)
(* no slot is nil after a call, and a call on a listener that has been     *)
(* normalized before changes no slot, whatever logger it is given.         *)
(***************************************************************************)
C2_Idempotent ==
    [][(calls' = calls + 1) =>
            /\ \A s \in Slots : l[s] # NilFunc => l'[s] = l[s]
            /\ \A s \in Slots : l'[s] # NilFunc
            /\ calls >= 1 => l' = l
            /\ \A s \in Slots : l0[s] # NilFunc => l'[s] = l0[s]]_vars

C2_Witness ==
    /\ calls = 2
    /\ made = "no"
    /\ l0["BackgroundError"] = NilFunc
    /\ l0["WALCreated"] = UserFunc("WALCreated")
    /\ l["WALCreated"] = UserFunc("WALCreated")
    /\ l["BackgroundError"].kind = "default_bgerr"
    /\ l["BackgroundError"].logger = "custom"

(***************************************************************************)
(* C6: MakeLoggingEventListener(logger) sets all 15 slots, and every       *)
(* invocation of a slot writes exactly one info entry to the selected      *)
(* sink: the rendering of the payload ("background error: " and the error  *)
(* for BackgroundError), and the fixed line "write stall ending" for       *)
(* WriteStallEnd.  The selected sink is DefaultLogger when logger is nil;  *)
(* no other sink is written.                                               *)
(***************************************************************************)
C6_LoggingListener ==
    made # "no" =>
        LET sel == IF made = NilLogger THEN DefaultLogger ELSE made
        IN  /\ Cardinality(Slots) = 15
            /\ \A s \in Slots : l[s] # NilFunc /\ Logs(l[s]) /\ l[s].logger = sel
            /\ ~panicked
            /\ \A g \in Sinks \ {sel} : sinks[g] = <<>>
            /\ \A w \in Workers : \A k \in 1..Len(hist[w]) :
                IF k \in Ran(w)
                THEN \E j \in DOMAIN sinks[sel] :
                        /\ EntryRefs(w, k) = {<<sel, j>>}
                        /\ sinks[sel][j].sev = "info"
                        /\ sinks[sel][j].msg = ExpectedLine(hist[w][k])
                ELSE EntryRefs(w, k) = {}

C6_Witness ==
    /\ made = NilLogger
    /\ pc["w1"] = "idle"
    /\ Len(hist["w1"]) = 2
    /\ hist["w1"][1].slot = "CompactionEnd"
    /\ hist["w1"][2].slot = "WriteStallEnd"
    /\ Len(sinks[DefaultLogger]) = 2
    /\ sinks[DefaultLogger][2].msg = <<Lit("write stall ending")>>
    /\ sinks["custom"] = <<>>

(***************************************************************************)
(* C7: dispatch is synchronous and exactly-once under any interleaving of  *)
(* the workers.  Each dispatch runs its callback once, and has run it by   *)
(* the time the worker is idle again; no dispatch is lost or duplicated;   *)
(* the sink entries of one worker appear in that worker's dispatch order;  *)
(* dispatch changes no slot of the listener.                               *)
(***************************************************************************)
DispatchExactlyOnce ==
    \A w \in Workers :
        /\ \A k \in 1..Len(hist[w]) :
            LET f == l[hist[w][k].slot]
                ran == k \in Ran(w)
            IN  /\ Cardinality(EntryRefs(w, k)) = (IF ran /\ Logs(f) THEN 1 ELSE 0)
                /\ Cardinality(UserRefs(w, k)) = (IF ran /\ f.kind = "user" THEN 1 ELSE 0)
                /\ \A x \in EntryRefs(w, k) :
                    /\ x[1] = f.logger
                    /\ sinks[x[1]][x[2]].msg = ExpectedLine(hist[w][k])
        /\ \A g \in Sinks : \A a, b \in DOMAIN sinks[g] :
            /\ sinks[g][a].w = w => sinks[g][a].k \in 1..Len(hist[w])
            /\ (a < b /\ sinks[g][a].w = w /\ sinks[g][b].w = w)
                    => sinks[g][a].k < sinks[g][b].k
        /\ \A a, b \in DOMAIN userCalls :
            (a < b /\ userCalls[a].w = w /\ userCalls[b].w = w)
                => userCalls[a].k < userCalls[b].k
        /\ pc[w] = "idle" => Ran(w) = 1..Len(hist[w])

\* C7: in every reachable state each dispatch has had its effect exactly once (and
\* has had it when its worker is idle again), in the worker's dispatch order, and
\* no step changes a slot of the listener
C7_SynchronousDispatch == [](DispatchExactlyOnce) /\ [][l' = l]_vars

C7_Witness ==
    /\ made = "custom"
    /\ hist["w1"] = <<[slot |-> "WriteStallBegin",
                       arg |-> [kind |-> "WriteStallBeginInfo", Reason |-> "memtable full"]]>>
    /\ pc["w1"] = "called"
    /\ Len(hist["w2"]) = 1
    /\ hist["w2"][1].slot = "WriteStallEnd"
    /\ pc["w2"] = "ran"
    /\ sinks["custom"] = <<[sev |-> "info", msg |-> <<Lit("write stall ending")>>,
                            w |-> "w2", k |-> 1]>>

====
